---------------------------- MODULE Spec2Model ----------------------------
(***************************************************************************)
(* Model of cve2csv.py: one run of the command line tool.                  *)
(*                                                                         *)
(* A run parses its arguments, logs, issues one requests.get, parses the   *)
(* body, reads the results count, extracts the table and writes the CSV.   *)
(* Texts that the code converts (int(b.text), ele.text.strip(), URL +      *)
(* keyword) are sequences of one-character strings, so that the            *)
(* conversions are computed and not assumed.                               *)
(***************************************************************************)
EXTENDS Integers, Sequences, FiniteSets, TLC

VARIABLES
    pc,          \* position of the run in __main__ / main
    keyword,     \* args.keyword
    verbose,     \* args.verbose
    output,      \* args.output
    delimiter,   \* args.delimiter
    encoding,    \* args.encoding
    rootLevel,   \* level of the root logger
    requestUrl,  \* the argument given to requests.get
    response,    \* the Response object fetch_cve_data got back
    soup,        \* the parsed document
    n_results,   \* main's n_results
    df,          \* main's df
    file,        \* the file at the output path
    log,         \* every record created by a logging.info/warning/error call
    emitted,     \* the records the root logger's handler wrote to stderr
    exc,         \* the exception that ended the run, if one propagated
    exitCode,    \* the exit status of the process
    steps        \* the pipeline stages entered so far, in order

vars == <<pc, keyword, verbose, output, delimiter, encoding, rootLevel,
          requestUrl, response, soup, n_results, df, file, log, emitted,
          exc, exitCode, steps>>

-----------------------------------------------------------------------------
(* Bound of the enumerated tables: the most tr elements a table holds.     *)

MaxRows == 3

-----------------------------------------------------------------------------
(* Python's None; also the value of a variable not yet assigned.           *)

None == [none |-> TRUE]

(* An assigned integer (n_results, the exit status), and no exception.     *)
IntValue(n) == [value |-> n]
NoException == "none"

(* Module constants.                                                       *)
URL == <<"https://cve.mitre.org/cgi-bin/cvekey.cgi?keyword=">>
CSV_FILE_NAME == "cve.csv"

-----------------------------------------------------------------------------
(* Text helpers.                                                           *)

Digits == <<"0", "1", "2", "3", "4", "5", "6", "7", "8", "9">>

IsSpace(c) == c \in {" ", "\n", "\t"}

IsDigit(c) == \E d \in 1..10 : Digits[d] = c

DigitVal(c) == (CHOOSE d \in 1..10 : Digits[d] = c) - 1

RECURSIVE LStrip(_)
LStrip(s) ==
    IF s = <<>> THEN s
    ELSE IF IsSpace(Head(s)) THEN LStrip(Tail(s)) ELSE s

RECURSIVE RStrip(_)
RStrip(s) ==
    IF s = <<>> THEN s
    ELSE IF IsSpace(s[Len(s)]) THEN RStrip(SubSeq(s, 1, Len(s) - 1)) ELSE s

(* str.strip(): leading and trailing whitespace removed, inner kept.       *)
strip(s) == RStrip(LStrip(s))

RECURSIVE DigitsValue(_)
DigitsValue(s) ==
    IF s = <<>> THEN 0
    ELSE 10 * DigitsValue(SubSeq(s, 1, Len(s) - 1)) + DigitVal(s[Len(s)])

Unsigned(s) == IF s # <<>> /\ Head(s) \in {"+", "-"} THEN Tail(s) ELSE s

(* int(text): surrounding whitespace is ignored, one sign is allowed, the  *)
(* rest must be a non-empty run of digits; anything else raises ValueError *)
int_raises(t) ==
    LET body == Unsigned(strip(t))
    IN  body = <<>> \/ \E i \in 1..Len(body) : ~IsDigit(body[i])

int(t) ==
    LET s == strip(t)
        v == DigitsValue(Unsigned(s))
    IN  IF s # <<>> /\ Head(s) = "-" THEN 0 - v ELSE v

-----------------------------------------------------------------------------
(* Inputs of a run: the command line and what the server answers.          *)

(* Command lines: the keyword, as characters, and the values of -o, -d    *)
(* and -e (the parser's defaults when the option is not given).            *)
CommandLine(kw, o, d, e) ==
    [keyword |-> kw, output |-> o, delimiter |-> d, encoding |-> e]

CommandLines ==
    { CommandLine(<<"x", "s", "s">>, CSV_FILE_NAME, ",", "utf-8"),
      CommandLine(<<"b", "o", " ", " ", "o", "f">>, "out.txt", ";", "latin-1") }

(* Ways requests.get itself fails, and the status codes of an answer.      *)
TransportErrors == {"ConnectionError", "Timeout"}
Statuses == {200, 304, 404, 500}

SearchResults == "Search Results"

(* A sibling element of a heading, with the texts of the b elements below  *)
(* it in document order.                                                   *)
Sibling(bolds) == [present |-> TRUE, bolds |-> bolds]
NoSibling == [present |-> FALSE, bolds |-> <<>>]

H2(string, sibling) == [string |-> string, sibling |-> sibling]

(* The h2 elements of a document, in document order.                       *)
HeadingLists ==
    { <<>>,
      << H2("Search results", Sibling(<< <<"5">> >>)) >>,
      << H2(SearchResults, NoSibling) >>,
      << H2(SearchResults, Sibling(<<>>)) >>,
      << H2(SearchResults, Sibling(<< <<"3">> >>)) >>,
      << H2(SearchResults, Sibling(<< <<"1", "2">>, <<"7">> >>)) >>,
      << H2(SearchResults, Sibling(<< <<"0">> >>)) >>,
      << H2(SearchResults, Sibling(<< <<"-", "1">> >>)) >>,
      << H2(SearchResults, Sibling(<< <<"\n", "2", " ">> >>)) >>,
      << H2(SearchResults, Sibling(<< <<>> >>)) >>,
      << H2(SearchResults, Sibling(<< <<"1", "k">>, <<"4">> >>)) >>,
      << H2("Search Results ", Sibling(<< <<"9">> >>)),
         H2(SearchResults, Sibling(<< <<"1">> >>)) >>,
      << H2(SearchResults, NoSibling),
         H2(SearchResults, Sibling(<< <<"4">> >>)) >> }

(* The text of the cell in row i, column j of an enumerated table: every   *)
(* cell differs, some carry surrounding whitespace, some inner whitespace. *)
CellText(i, j) ==
    IF (i + j) % 2 = 0
    THEN <<" ", Digits[i + 1], Digits[j + 1], "\n">>
    ELSE <<Digits[i + 1], " ", Digits[j + 1]>>

(* The table whose i-th tr holds widths[i] th/td cells.                    *)
TableOf(widths) ==
    [i \in 1..Len(widths) |-> [j \in 1..widths[i] |-> CellText(i, j)]]

(* The numbers of cells a tr may hold.                                     *)
Widths == {0, 1, 2}

WidthSeqs == UNION { [1..n -> Widths] : n \in 0..MaxRows }

(* The element with id TableWithRules: absent, or present with the table   *)
(* elements below it.                                                      *)
Containers ==
    { [present |-> FALSE, tables |-> <<>>],
      [present |-> TRUE, tables |-> <<>>] }
    \cup { [present |-> TRUE, tables |-> << TableOf(w) >>] : w \in WidthSeqs }

Docs == { [h2s |-> h, container |-> c] : h \in HeadingLists, c \in Containers }

-----------------------------------------------------------------------------
(* Logging.                                                                *)

LevelNo(level) ==
    CASE level = "INFO" -> 20
      [] level = "WARNING" -> 30
      [] level = "ERROR" -> 40

Record(level, msg) == [level |-> level, msg |-> msg]

(* The root logger handles a record when its level is at least the         *)
(* logger's; the module-level logging calls install a stderr handler on    *)
(* first use when none is configured.                                      *)
Handle(out, level, rec) ==
    IF LevelNo(rec.level) >= LevelNo(level) THEN Append(out, rec) ELSE out

RECURSIVE HandleAll(_, _, _)
HandleAll(out, level, recs) ==
    IF recs = <<>> THEN out
    ELSE HandleAll(Handle(out, level, Head(recs)), level, Tail(recs))

(* Variant: the INFO level is configured whatever the flag.                *)
ConfiguredLevelInfo(v) == "INFO"

(* __main__: logging.basicConfig(level=logging.INFO) only with -v; the     *)
(* root logger's level is WARNING otherwise.                               *)
ConfiguredLevel(v) == IF v THEN "INFO" ELSE "WARNING"

-----------------------------------------------------------------------------
(* fetch_cve_data.                                                         *)

(* The URL handed to requests.get: URL + keyword.                          *)
BuildUrl(kw) == URL \o kw

(* What requests.get produced: the exception it raised, or a Response     *)
(* with its status code and text.                                          *)
Response(error, status, text) ==
    [error |-> error, status |-> status, text |-> text]

(* Variant: only server errors raise.                                      *)
RaisesForStatusServerOnly(status) == 500 <= status /\ status < 600

(* Response.raise_for_status() raises HTTPError for 4xx and 5xx.           *)
RaisesForStatus(status) == 400 <= status /\ status < 600

-----------------------------------------------------------------------------
(* get_results_number.                                                     *)

(* soup.find('h2', string='Search Results'): the first h2 whose string is  *)
(* exactly that text, or None.                                             *)
RECURSIVE find_h2(_)
find_h2(h2s) ==
    IF h2s = <<>> THEN None
    ELSE IF Head(h2s).string = SearchResults THEN Head(h2s)
    ELSE find_h2(Tail(h2s))

Returned(v) == [raised |-> FALSE, value |-> v]
Raised == [raised |-> TRUE, value |-> 0]

(* Variant: the last b element is read instead of the first.              *)
get_results_number_last(s) ==
    LET h2 == find_h2(s.h2s)
    IN  IF h2 = None THEN Returned(0)
        ELSE IF ~h2.sibling.present THEN Returned(0)
        ELSE IF h2.sibling.bolds = <<>> THEN Returned(0)
        ELSE LET b == h2.sibling.bolds[Len(h2.sibling.bolds)]
             IN  IF int_raises(b) THEN Raised ELSE Returned(int(b))

(* int(b.text) if the h2, its next sibling and a b below it exist, else 0. *)
(* A Tag is truthy whatever it contains.                                   *)
get_results_number(s) ==
    LET h2 == find_h2(s.h2s)
    IN  IF h2 = None THEN Returned(0)
        ELSE IF ~h2.sibling.present THEN Returned(0)
        ELSE IF h2.sibling.bolds = <<>> THEN Returned(0)
        ELSE LET b == Head(h2.sibling.bolds)
             IN  IF int_raises(b) THEN Raised ELSE Returned(int(b))

-----------------------------------------------------------------------------
(* extract_table_data.                                                     *)

SeqMax(lens) == CHOOSE m \in lens : \A n \in lens : n <= m

Value(text) == [na |-> FALSE, text |-> text]
NA == [na |-> TRUE, text |-> <<>>]

(* pd.DataFrame(data, columns=columns) for a non-empty list of lists: the  *)
(* rows are padded with missing values to the longest row, and a number of *)
(* columns other than len(columns) raises ValueError.                      *)
DataFrameRaises(data, columns) ==
    SeqMax({Len(data[i]) : i \in 1..Len(data)}) # Len(columns)

DataFrame(data, columns) ==
    [columns |-> columns,
     data |-> [i \in 1..Len(data) |->
                 [j \in 1..Len(columns) |->
                    IF j <= Len(data[i]) THEN Value(data[i][j]) ELSE NA]]]

NoTableWarning == Record("WARNING", "No table found with id 'TableWithRules'.")
NoValidDataWarning == Record("WARNING", "No valid data found in table.")
MismatchError == Record("ERROR", "Mismatch between header and row columns.")

Extracted(d, logs) == [raised |-> FALSE, df |-> d, logs |-> logs]
ExtractRaised == [raised |-> TRUE, df |-> None, logs |-> <<>>]

(* The rows of the table: the stripped text of every th/td of every tr.    *)
RowsOf(table) ==
    [i \in 1..Len(table) |-> [j \in 1..Len(table[i]) |-> strip(table[i][j])]]

(* Variant: the row-count guard is len(rows) < 1, so that a table of one   *)
(* row reaches rows[1:][0], which raises IndexError.                       *)
extract_table_data_min1(s) ==
    IF s.container.present /\ s.container.tables # <<>>
    THEN LET rows == RowsOf(Head(s.container.tables))
         IN  IF Len(rows) < 1
             THEN Extracted(None, <<NoValidDataWarning>>)
             ELSE IF Len(rows) = 1
             THEN ExtractRaised
             ELSE IF Len(rows[1]) # Len(Tail(rows)[1])
             THEN Extracted(None, <<MismatchError>>)
             ELSE IF DataFrameRaises(Tail(rows), rows[1])
             THEN ExtractRaised
             ELSE Extracted(DataFrame(Tail(rows), rows[1]), <<>>)
    ELSE Extracted(None, <<NoTableWarning>>)

extract_table_data(s) ==
    IF s.container.present /\ s.container.tables # <<>>
    THEN LET rows == RowsOf(Head(s.container.tables))
         IN  IF Len(rows) < 2
             THEN Extracted(None, <<NoValidDataWarning>>)
             ELSE IF Len(rows[1]) # Len(Tail(rows)[1])
             THEN Extracted(None, <<MismatchError>>)
             ELSE IF DataFrameRaises(Tail(rows), rows[1])
             THEN ExtractRaised
             ELSE Extracted(DataFrame(Tail(rows), rows[1]), <<>>)
    ELSE Extracted(None, <<NoTableWarning>>)

-----------------------------------------------------------------------------
(* save_to_csv.                                                            *)

(* A field as to_csv writes it: a missing value is written empty.          *)
Field(cell) == IF cell.na THEN <<>> ELSE cell.text

(* df.to_csv(output_file, index=False, sep=delimiter, encoding=encoding):  *)
(* the column labels, then one line per row; a line is its fields.         *)
to_csv(d, output_file, sep, enc) ==
    [path |-> output_file, sep |-> sep, encoding |-> enc, index |-> FALSE,
     lines |-> <<d.columns>> \o
               [i \in 1..Len(d.data) |->
                  [j \in 1..Len(d.data[i]) |-> Field(d.data[i][j])]]]

SavedInfo == Record("INFO", "Data saved")

-----------------------------------------------------------------------------
(* main and __main__.                                                      *)

GettingInfo == Record("INFO", "Getting results")
FetchError == Record("ERROR", "Error fetching data")
CountInfo == Record("INFO", "There are n_results Records that match your search.")
NoSaveWarning == Record("WARNING", "No valid data to save; exiting.")
NoRecordsInfo == Record("INFO", "No CVE records found for the given keyword.")

(* Variant: the gate lets a count of 0 through.                            *)
HasResultsOrZero(n) == n >= 0

(* main: if n_results > 0.                                                 *)
HasResults(n) == n > 0

(* Variant: the request is reissued after a failure.                       *)
AfterFetchErrorRetry == "fetch"

(* Where the run goes after fetch_cve_data caught RequestException:        *)
(* sys.exit(1) ends it.                                                    *)
AfterFetchError == "done"

Emit(recs) ==
    /\ log' = log \o recs
    /\ emitted' = HandleAll(emitted, rootLevel, recs)

Init ==
    /\ pc = "args"
    /\ \E args \in CommandLines :
          /\ keyword = args.keyword
          /\ output = args.output
          /\ delimiter = args.delimiter
          /\ encoding = args.encoding
    /\ verbose \in BOOLEAN
    /\ rootLevel = "WARNING"
    /\ requestUrl = <<>>
    /\ response = None
    /\ soup = None
    /\ n_results = None
    /\ df = None
    /\ file = None
    /\ log = <<>>
    /\ emitted = <<>>
    /\ exc = NoException
    /\ exitCode = None
    /\ steps = <<>>

(* __main__: parse_args, basicConfig when verbose, then main(...).         *)
Configure ==
    /\ pc = "args"
    /\ rootLevel' = ConfiguredLevel(verbose)
    /\ pc' = "main"
    /\ UNCHANGED <<keyword, verbose, output, delimiter, encoding, requestUrl,
                   response, soup, n_results, df, file, log, emitted, exc,
                   exitCode, steps>>

(* main: the first logging.info.                                           *)
MainStart ==
    /\ pc = "main"
    /\ Emit(<<GettingInfo>>)
    /\ pc' = "fetch"
    /\ UNCHANGED <<keyword, verbose, output, delimiter, encoding, rootLevel,
                   requestUrl, response, soup, n_results, df, file, exc,
                   exitCode, steps>>

(* fetch_cve_data: the GET is answered with a status raise_for_status      *)
(* accepts; response.text is returned.                                     *)
FetchOk ==
    /\ pc = "fetch"
    /\ \E status \in Statuses, body \in Docs :
          /\ ~RaisesForStatus(status)
          /\ response' = Response("none", status, body)
    /\ requestUrl' = BuildUrl(keyword)
    /\ steps' = Append(steps, "get")
    /\ pc' = "parse"
    /\ UNCHANGED <<keyword, verbose, output, delimiter, encoding, rootLevel,
                   soup, n_results, df, file, log, emitted, exc, exitCode>>

(* fetch_cve_data: requests.get or raise_for_status raises a               *)
(* RequestException; the error is logged and sys.exit(1) is called.        *)
FetchFail ==
    /\ pc = "fetch"
    /\ \/ \E e \in TransportErrors : response' = Response(e, 0, None)
       \/ \E status \in Statuses :
             /\ RaisesForStatus(status)
             /\ response' = Response("HTTPError", status, None)
    /\ requestUrl' = BuildUrl(keyword)
    /\ steps' = Append(steps, "get")
    /\ Emit(<<FetchError>>)
    /\ exitCode' = IntValue(1)
    /\ pc' = AfterFetchError
    /\ UNCHANGED <<keyword, verbose, output, delimiter, encoding, rootLevel,
                   soup, n_results, df, file, exc>>

(* main: BeautifulSoup(html, 'html.parser').                               *)
Parse ==
    /\ pc = "parse"
    /\ soup' = response.text
    /\ steps' = Append(steps, "parse")
    /\ pc' = "count"
    /\ UNCHANGED <<keyword, verbose, output, delimiter, encoding, rootLevel,
                   requestUrl, response, n_results, df, file, log, emitted,
                   exc, exitCode>>

(* main: n_results = get_results_number(soup), then logging.info; a        *)
(* ValueError from int() propagates out of main and ends the process.      *)
Count ==
    /\ pc = "count"
    /\ steps' = Append(steps, "count")
    /\ LET r == get_results_number(soup)
       IN  IF r.raised
           THEN /\ exc' = "ValueError"
                /\ exitCode' = IntValue(1)
                /\ pc' = "done"
                /\ UNCHANGED <<n_results, log, emitted>>
           ELSE /\ n_results' = IntValue(r.value)
                /\ Emit(<<CountInfo>>)
                /\ pc' = "branch"
                /\ UNCHANGED <<exc, exitCode>>
    /\ UNCHANGED <<keyword, verbose, output, delimiter, encoding, rootLevel,
                   requestUrl, response, soup, df, file>>

(* main: n_results > 0 fails; the last logging.info, and main returns.     *)
NoRecords ==
    /\ pc = "branch"
    /\ ~HasResults(n_results.value)
    /\ Emit(<<NoRecordsInfo>>)
    /\ exitCode' = IntValue(0)
    /\ pc' = "done"
    /\ UNCHANGED <<keyword, verbose, output, delimiter, encoding, rootLevel,
                   requestUrl, response, soup, n_results, df, file, exc,
                   steps>>

(* main: n_results > 0 and df := extract_table_data(soup); None leads to   *)
(* the warning and main returns; a ValueError from pd.DataFrame            *)
(* propagates.                                                             *)
Extract ==
    /\ pc = "branch"
    /\ HasResults(n_results.value)
    /\ steps' = Append(steps, "extract")
    /\ LET r == extract_table_data(soup)
       IN  IF r.raised
           THEN /\ exc' = "ValueError"
                /\ exitCode' = IntValue(1)
                /\ pc' = "done"
                /\ UNCHANGED <<df, log, emitted>>
           ELSE IF r.df = None
           THEN /\ Emit(r.logs \o <<NoSaveWarning>>)
                /\ exitCode' = IntValue(0)
                /\ pc' = "done"
                /\ UNCHANGED <<df, exc>>
           ELSE /\ df' = r.df
                /\ Emit(r.logs)
                /\ pc' = "save"
                /\ UNCHANGED <<exc, exitCode>>
    /\ UNCHANGED <<keyword, verbose, output, delimiter, encoding, rootLevel,
                   requestUrl, response, soup, n_results, file>>

(* main: save_to_csv(df, output, delimiter, encoding), and main returns.   *)
Save ==
    /\ pc = "save"
    /\ file' = to_csv(df, output, delimiter, encoding)
    /\ steps' = Append(steps, "write")
    /\ Emit(<<SavedInfo>>)
    /\ exitCode' = IntValue(0)
    /\ pc' = "done"
    /\ UNCHANGED <<keyword, verbose, output, delimiter, encoding, rootLevel,
                   requestUrl, response, soup, n_results, df, exc>>

Next ==
    \/ Configure
    \/ MainStart
    \/ FetchOk
    \/ FetchFail
    \/ Parse
    \/ Count
    \/ NoRecords
    \/ Extract
    \/ Save

Spec == Init /\ [][Next]_vars

(* The interpreter runs the statements of one thread one after the other:  *)
(* a step that can be taken is taken.                                      *)
FairSpec == Spec /\ WF_vars(Next)

-----------------------------------------------------------------------------
(* What the properties below speak of.                                     *)

Done == pc = "done"

Did(step) == \E i \in 1..Len(steps) : steps[i] = step

Logged(rec) == \E i \in 1..Len(log) : log[i] = rec

Shown(rec) == \E i \in 1..Len(emitted) : emitted[i] = rec

(* The request succeeded: fetch_cve_data returned the body.                *)
FetchSucceeded == Did("get") /\ response.error = "none"

(* The count was obtained, and its value.                                  *)
Counted == n_results # None

(* extract_table_data was called and returned (a DataFrame or None).       *)
ExtractReturned == Did("extract") /\ exc = NoException

(* The h2 the count is read from: the first one in document order whose    *)
(* string is exactly "Search Results".                                     *)
MatchIdx == { i \in 1..Len(soup.h2s) : soup.h2s[i].string = SearchResults }
FirstMatch == soup.h2s[CHOOSE i \in MatchIdx : \A j \in MatchIdx : i <= j]
BoldMissing ==
    \/ MatchIdx = {}
    \/ ~FirstMatch.sibling.present
    \/ FirstMatch.sibling.bolds = <<>>

(* The table extract_table_data locates, when there is one.                *)
TableLocated == soup.container.present /\ soup.container.tables # <<>>
Table == soup.container.tables[1]

(* C1: the output file is written exactly in the runs whose fetch          *)
(* succeeded, whose count is greater than 0 and whose extraction returned  *)
(* a table; a run with a count of 0 or less, or whose extraction returned  *)
(* no data, writes no file and ends cleanly (exit status 0, no exception). *)
C1_FileGate ==
    /\ ~Done => file = None
    /\ Done =>
         /\ (file # None) <=>
               /\ FetchSucceeded
               /\ Counted /\ n_results.value > 0
               /\ ExtractReturned /\ df # None
         /\ (\/ Counted /\ n_results.value <= 0
             \/ ExtractReturned /\ df = None)
              => file = None /\ exitCode = IntValue(0) /\ exc = NoException

(* C1 witness: a run that wrote the file, next to which runs with a count  *)
(* that is not positive exist too.                                         *)
C1_Witness ==
    /\ Done /\ file # None
    /\ n_results.value > 0 /\ df # None /\ exitCode = IntValue(0)

(* C2: whenever any data row of the located table, not only the first,     *)
(* has a cell count different from the header's, extract_table_data        *)
(* returns None and logs the mismatch error without raising; a grid is     *)
(* built only when every data row has as many cells as the header.         *)
C2_AnyMismatchRejected ==
    (Did("extract") /\ TableLocated /\ Len(Table) >= 2) =>
        /\ (\E i \in 2..Len(Table) : Len(Table[i]) # Len(Table[1]))
              => df = None /\ exc = NoException /\ Logged(MismatchError)
        /\ df # None => \A i \in 2..Len(Table) : Len(Table[i]) = Len(Table[1])

(* C3: when the heading, its sibling and the b element are present but the *)
(* b element's text is not a valid integer, get_results_number returns 0   *)
(* without failing, and the run ends as a zero-results run.                *)
C3_UnparsableCountIsZero ==
    (Did("count") /\ ~BoldMissing /\ int_raises(FirstMatch.sibling.bolds[1])) =>
        /\ exc = NoException
        /\ n_results = IntValue(0)
        /\ Done => exitCode = IntValue(0) /\ Logged(NoRecordsInfo)

(* The ways a run ends that C4 names.                                      *)
EndsInSuccess == file # None
EndsInNoResults == Counted /\ n_results.value <= 0
EndsInNoValidTable == ExtractReturned /\ df = None

(* A run whose request failed ends at once: error logged, no parse, no     *)
(* count, no extraction, no file.                                          *)
EndedAtFetch ==
    /\ exitCode = IntValue(1)
    /\ Logged(FetchError)
    /\ steps = <<"get">>
    /\ soup = None /\ n_results = None /\ df = None /\ file = None

(* C4 as stated: status 0 for success, no results and no valid table;      *)
(* status 1, ending at once, for every connection error, timeout or        *)
(* non-2xx status.                                                         *)
C4_ExitCodesNon2xx ==
    Done =>
      /\ (EndsInSuccess \/ EndsInNoResults \/ EndsInNoValidTable)
            => exitCode = IntValue(0)
      /\ (Did("get") /\ (\/ response.error \in TransportErrors
                         \/ response.status < 200
                         \/ response.status >= 300))
            => EndedAtFetch

(* C4 amended: as C4, with the failing statuses being the 4xx and 5xx      *)
(* ones (those raise_for_status raises for); an answer with another status *)
(* is processed like a 2xx one.                                            *)
C4_ExitCodes ==
    Done =>
      /\ (EndsInSuccess \/ EndsInNoResults \/ EndsInNoValidTable)
            => exitCode = IntValue(0)
      /\ (Did("get") /\ (\/ response.error \in TransportErrors
                         \/ (400 <= response.status /\ response.status < 600)))
            => EndedAtFetch
      /\ (Did("get") /\ response.error \notin TransportErrors
                     /\ (response.status < 400 \/ response.status >= 600))
            => Did("parse") /\ Did("count")

(* C4 witness: a run ended by a 404 answer with status 1.                  *)
C4_Witness ==
    /\ Done /\ Did("get") /\ response.status = 404
    /\ exitCode = IntValue(1) /\ steps = <<"get">>

(* C5 as stated: in quiet mode the only record shown is the fatal          *)
(* transport error; in verbose mode every record is shown.                 *)
C5_QuietOnlyFatal ==
    /\ ~verbose => \A i \in 1..Len(emitted) : emitted[i] = FetchError
    /\ verbose /\ pc # "args" => emitted = log

IsWarningOrError(rec) == rec.level \in {"WARNING", "ERROR"}

(* C5 amended: in quiet mode the records shown are exactly the WARNING and *)
(* ERROR ones (the recovered conditions as well as the fatal transport     *)
(* error) and no informational line is shown; in verbose mode every record *)
(* is shown, so every recovered condition is surfaced.                     *)
C5_QuietShowsWarnings ==
    /\ ~verbose =>
         /\ emitted = SelectSeq(log, IsWarningOrError)
         /\ \A i \in 1..Len(emitted) : emitted[i].level # "INFO"
    /\ verbose /\ pc # "args" => emitted = log
    /\ (Done /\ ExtractReturned /\ df = None) =>
         /\ Shown(NoSaveWarning)
         /\ \/ Shown(NoTableWarning)
            \/ Shown(NoValidDataWarning)
            \/ Shown(MismatchError)

(* C5 witness: a quiet run that showed a recovered condition and hid an    *)
(* informational line.                                                     *)
C5_Witness ==
    /\ ~verbose /\ Done
    /\ Shown(NoTableWarning) /\ Shown(NoSaveWarning)
    /\ Logged(GettingInfo) /\ ~Shown(GettingInfo)

PercentEncode(t) == [i \in 1..Len(t) |-> IF t[i] = " " THEN "%20" ELSE t[i]]

(* C7: the URL fetch_cve_data constructs for the request is the base URL   *)
(* followed by the percent-encoded keyword, with no raw space.             *)
C7_UrlPercentEncoded ==
    Did("get") =>
      /\ requestUrl = URL \o PercentEncode(keyword)
      /\ \A i \in 1..Len(requestUrl) : requestUrl[i] # " "

(* C8: a written file is the header line, equal to the table's first row,  *)
(* then one line per further table row, in order, each the stripped texts  *)
(* of that row's cells; no index column; the caller's delimiter and        *)
(* encoding; as many data lines as table rows after the header, whatever   *)
(* the count.                                                              *)
C8_FileMatchesTable ==
    file # None =>
      /\ Len(file.lines) = Len(Table)
      /\ \A i \in 1..Len(Table) :
            /\ Len(file.lines[i]) = Len(Table[i])
            /\ \A j \in 1..Len(Table[i]) : file.lines[i][j] = strip(Table[i][j])
      /\ ~file.index
      /\ file.sep = delimiter /\ file.encoding = encoding
      /\ file.path = output

(* C9: extract_table_data returns None and logs a warning, raising         *)
(* nothing, when the TableWithRules element is absent, when it holds no    *)
(* table, and when the table has fewer than 2 rows.                        *)
C9_NoTableWarns ==
    Did("extract") =>
      /\ ~TableLocated
            => df = None /\ exc = NoException /\ Logged(NoTableWarning)
      /\ (TableLocated /\ Len(Table) < 2)
            => df = None /\ exc = NoException /\ Logged(NoValidDataWarning)

(* C9 witness: a table of a single row was met and warned about.           *)
C9_Witness ==
    /\ Did("extract") /\ TableLocated /\ Len(Table) = 1
    /\ Logged(NoValidDataWarning) /\ df = None

Order == <<"get", "parse", "count", "extract", "write">>

(* The stages entered so far are an initial part of the pipeline: each at  *)
(* most once, in order, none repeated.                                     *)
Linear ==
    /\ Len(steps) <= Len(Order)
    /\ \A i \in 1..Len(steps) : steps[i] = Order[i]
    /\ Done => Len(steps) >= 1

(* C10: every run is a strict linear sequence that terminates: one GET,    *)
(* before the parse, before the count, before the extraction, before the   *)
(* at most one write; nothing is repeated or retried.                      *)
C10_LinearRun == []Linear /\ <>Done

(* C10 witness: a finished run that went through every stage once.         *)
C10_Witness == Done /\ steps = Order

=============================================================================
